---- MODULE Spec2Model ----
\* The reducer of zokrates_core (static_analysis/reducer/mod.rs): reduce_program,
\* the fixed-point loop of Reducer::fold_function, reduce_statements,
\* reduce_statement and propagate, run on small typed programs.
EXTENDS Integers, Sequences, FiniteSets, TLC

\* ---------------------------------------------------------------- bounds

\* Greatest number of statements of a generated main body before its return.
MaxLen == 2

\* Fuel of the fixed-point loop when a callee is reduced inside inline_call.
MaxCalleePasses == 2

\* F(x) with the argument x evaluated once, before F is entered, as in a
\* Rust call.
Eval(F(_), x) == CHOOSE y \in {F(v) : v \in {x}} : TRUE

\* ------------------------------------------------------------ typed_absy

Names == {"a", "b", "n", "i"}

\* Versions<'ast> = HashMap<CoreIdentifier, usize>; Absent is "no entry".
Absent == 0 - 1

EmptyVersions == [x \in Names |-> Absent]

\* Array lengths: a literal, the expression (id - 1), or a generic parameter.
Lit(k) == [l |-> "lit", id |-> "", ver |-> 0, k |-> k]

SubOne(x, v) == [l |-> "sub", id |-> x, ver |-> v, k |-> 1]

Generic(g) == [l |-> "generic", id |-> g, ver |-> 0, k |-> 0]

FieldElement == [t |-> "field", len |-> Lit(0)]

U32 == [t |-> "u32", len |-> Lit(0)]

ArrayOf(len) == [t |-> "array", len |-> len]

Variable(x, ty) == [id |-> x, ver |-> 0, ty |-> ty]

Uint(c) == [e |-> "uint", id |-> "", ver |-> 0, val |-> c, ty |-> U32]

Identifier(x, ty) == [e |-> "id", id |-> x, ver |-> 0, val |-> 0, ty |-> ty]

ArrayValue(c) == [e |-> "value", id |-> "", ver |-> 0, val |-> c, ty |-> ArrayOf(Lit(1))]

Definition(v, e) == [kind |-> "Definition", var |-> v, rhs |-> e]

MultipleDefinition(vs, key, args) ==
    [kind |-> "MultipleDefinition", vars |-> vs, key |-> key, args |-> args]

For(v, from, to, body) ==
    [kind |-> "For", var |-> v, from |-> from, to |-> to, body |-> body]

Return(es) == [kind |-> "Return", exprs |-> es]

PushCallLog(caller, key, generics, bindings) ==
    [kind |-> "PushCallLog", caller |-> caller, key |-> key,
     generics |-> generics, bindings |-> bindings]

PopCallLog(bindings) == [kind |-> "PopCallLog", bindings |-> bindings]

Signature(ins, outs) == [inputs |-> ins, outputs |-> outs]

FunctionKey(id, sig) == [id |-> id, signature |-> sig]

TypedFunction(generics, arguments, statements, signature) ==
    [generics |-> generics, arguments |-> arguments,
     statements |-> statements, signature |-> signature]

Here(f) == [sym |-> "Here", f |-> f]

Primitive == [sym |-> "Primitive", f |-> TypedFunction(<<>>, <<>>, <<>>, Signature(<<>>, <<>>))]

\* ------------------------------------------------ the functions of the tests

FieldSig == Signature(<<FieldElement>>, <<FieldElement>>)

GenericSig == Signature(<<ArrayOf(Generic("K"))>>, <<ArrayOf(Generic("K"))>>)

\* def foo(field a) -> field: return a            (tests::no_generics)
foo == TypedFunction(<<>>, <<Variable("a", FieldElement)>>,
                     <<Return(<<Identifier("a", FieldElement)>>)>>, FieldSig)

\* def foo<K>(field[K] a) -> field[K]: return a   (tests::with_generics)
fooK == TypedFunction(<<"K">>, <<Variable("a", ArrayOf(Generic("K")))>>,
                      <<Return(<<Identifier("a", ArrayOf(Generic("K")))>>)>>, GenericSig)

\* def dup(field a) -> field: a = a; return a
dup == TypedFunction(<<>>, <<Variable("a", FieldElement)>>,
                     <<Definition(Variable("a", FieldElement), Identifier("a", FieldElement)),
                       Return(<<Identifier("a", FieldElement)>>)>>, FieldSig)

\* def f(field a) -> field: a = g(a); return a, with g the same as foo
f_g == TypedFunction(<<>>, <<Variable("a", FieldElement)>>,
                     <<MultipleDefinition(<<Variable("a", FieldElement)>>,
                                          FunctionKey("g", FieldSig),
                                          <<Identifier("a", FieldElement)>>),
                       Return(<<Identifier("a", FieldElement)>>)>>, FieldSig)

\* --------------------------------------------- shallow_ssa (ShallowTransformer)

\* The version a read of x refers to: the latest one, 0 when x has no entry.
Current(versions, x) == IF versions[x] = Absent THEN 0 ELSE versions[x]

\* The side table binding the generic parameters to the supplied values.
Bind(generics, values) ==
    [g \in {generics[i] : i \in 1..Len(generics)} |->
        values[CHOOSE i \in 1..Len(generics) : generics[i] = g]]

SsaLen(len, versions, binding) ==
    CASE len.l = "sub" -> [len EXCEPT !.ver = Current(versions, len.id)]
      [] len.l = "generic" /\ len.id \in DOMAIN binding -> Lit(binding[len.id])
      [] OTHER -> len

SsaType(ty, versions, binding) ==
    [ty EXCEPT !.len = SsaLen(ty.len, versions, binding)]

SsaExpr(e, versions, binding) ==
    [e EXCEPT !.ver = IF e.e = "id" THEN Current(versions, e.id) ELSE e.ver,
              !.ty = SsaType(e.ty, versions, binding)]

SsaExprs(es, versions, binding) ==
    [i \in 1..Len(es) |-> SsaExpr(es[i], versions, binding)]

\* Faulty variant of SsaVar: the version the variable carries is incremented,
\* not the one of the VersionMap.
SsaVar_increments_carried(v, versions, binding) ==
    [v EXCEPT !.ver = v.ver + 1, !.ty = SsaType(v.ty, versions, binding)]

\* A write: the first write of a name without entry gets version 0, every
\* other write the next version.
SsaVar(v, versions, binding) ==
    [v EXCEPT !.ver = versions[v.id] + 1, !.ty = SsaType(v.ty, versions, binding)]

RECURSIVE SsaVars(_, _, _)
SsaVars(vs, versions, binding) ==
    IF vs = <<>> THEN [vars |-> <<>>, versions |-> versions]
    ELSE Eval(LAMBDA v :
                 Eval(LAMBDA rest : [rest EXCEPT !.vars = <<v>> \o @],
                      SsaVars(Tail(vs), [versions EXCEPT ![v.id] = v.ver], binding)),
              SsaVar(Head(vs), versions, binding))

SsaStatement(s, versions, binding) ==
    CASE s.kind = "Definition" ->
           LET v == SsaVar(s.var, versions, binding)
           IN [stmt |-> Definition(v, SsaExpr(s.rhs, versions, binding)),
               versions |-> [versions EXCEPT ![v.id] = v.ver], snaps |-> <<>>]
      [] s.kind = "MultipleDefinition" ->
           LET w == SsaVars(s.vars, versions, binding)
           IN [stmt |-> MultipleDefinition(w.vars, s.key,
                                           SsaExprs(s.args, versions, binding)),
               versions |-> w.versions, snaps |-> <<>>]
      [] s.kind = "For" ->
           [stmt |-> For(s.var, SsaExpr(s.from, versions, binding),
                         SsaExpr(s.to, versions, binding), s.body),
            versions |-> versions, snaps |-> <<versions>>]
      [] s.kind = "Return" ->
           [stmt |-> Return(SsaExprs(s.exprs, versions, binding)),
            versions |-> versions, snaps |-> <<>>]
      [] OTHER -> [stmt |-> s, versions |-> versions, snaps |-> <<>>]

RECURSIVE SsaStatements(_, _, _)
SsaStatements(stmts, versions, binding) ==
    IF stmts = <<>>
    THEN [statements |-> <<>>, for_loop_versions |-> <<>>, versions |-> versions]
    ELSE Eval(LAMBDA r :
                 Eval(LAMBDA rest : [rest EXCEPT !.statements = <<r.stmt>> \o @,
                                                 !.for_loop_versions = r.snaps \o @],
                      SsaStatements(Tail(stmts), r.versions, binding)),
              SsaStatement(Head(stmts), versions, binding))

IsCallOrLoop(s) == s.kind \in {"MultipleDefinition", "For"}

\* Output::Complete(f) | Output::Incomplete(f, for_loop_versions, versions)
ShallowTransform(g, generics) ==
    Eval(LAMBDA r :
            [complete |-> \A i \in 1..Len(r.statements) : ~IsCallOrLoop(r.statements[i]),
             f |-> [g EXCEPT !.statements = r.statements],
             for_loop_versions |-> r.for_loop_versions,
             versions |-> r.versions],
         SsaStatements(g.statements,
                       [x \in Names |->
                           IF x \in {g.arguments[i].id : i \in 1..Len(g.arguments)}
                           THEN 0 ELSE Absent],
                       Bind(g.generics, generics)))

\* ------------------------------------------------------ inline (inline_call)

Ok(stmts) == [tag |-> "Ok", stmts |-> stmts]

Err(stmts) == [tag |-> "Err", stmts |-> stmts]

\* Outcomes that are no return value: a panic, a loop that never ends.
Aborts == {"Panic", "Diverge"}

Abort(tag) == [tag |-> tag, stmts |-> <<>>]

\* A key no module holds does not resolve.
Missing == [sym |-> "Missing", f |-> TypedFunction(<<>>, <<>>, <<>>, Signature(<<>>, <<>>))]

Resolve(key, modules) ==
    IF \A m \in DOMAIN modules : key \notin DOMAIN modules[m] THEN Missing
    ELSE LET m == CHOOSE m \in DOMAIN modules : key \in DOMAIN modules[m]
         IN modules[m][key]

Monomorphize(ty, binding) ==
    [ty EXCEPT !.len = IF @.l = "generic" /\ @.id \in DOMAIN binding
                       THEN Lit(binding[@.id]) ELSE @]

\* The length expression each generic parameter is inferred from: the length
\* of the actual argument passed for the parameter declared with it.
InferGenerics(callee, arguments) ==
    [g \in 1..Len(callee.generics) |->
        LET i == CHOOSE i \in 1..Len(callee.arguments) :
                     callee.arguments[i].ty.len = Generic(callee.generics[g])
        IN arguments[i].ty.len]

IsReturn(s) == s.kind = "Return"

IsNotReturn(s) == s.kind # "Return"

\* ----------------------------------------------------------------- reducer

RECURSIVE fold_loop(_, _, _, _, _)

\* Reducer { generics, modules }.fold_function(f) (mod.rs 94-129) as inline_call
\* runs it on a callee; fuel bounds the passes of its loop.
fold_output(t, modules, fuel) ==
    IF t.complete THEN [tag |-> "Ok", f |-> t.f]
    ELSE fold_loop(t.f, t.for_loop_versions, t.versions, modules, fuel)

fold_function(g, generics, modules, fuel) ==
    Eval(LAMBDA t : fold_output(t, modules, fuel), ShallowTransform(g, generics))

\* The statements that replace the call site, from the reduced callee r:
\* PushCallLog, the callee's statements but its return, PopCallLog.
inlined(v, caller, key, arguments, callee, generics, r) ==
    IF r.tag # "Ok" THEN Abort(r.tag)
    ELSE
    LET binding == Bind(callee.generics, generics)
        ret == SelectSeq(r.f.statements, IsReturn)[1].exprs
        push == PushCallLog(caller, key, generics,
                   [i \in 1..Len(callee.arguments) |->
                       <<[callee.arguments[i] EXCEPT !.ty = Monomorphize(@, binding)],
                         arguments[i]>>])
        pop == PopCallLog(
                   [i \in 1..Len(v) |->
                       <<[v[i] EXCEPT !.ty = Monomorphize(
                             callee.signature.outputs[i], binding)],
                         ret[i]>>])
    IN Ok(<<push>> \o SelectSeq(r.f.statements, IsNotReturn) \o <<pop>>)

inline_here(v, caller, key, arguments, modules, callee, lens) ==
    IF \E g \in 1..Len(lens) : lens[g].l # "lit"
    THEN Err(<<MultipleDefinition(v, key, arguments)>>)
    ELSE Eval(LAMBDA r : inlined(v, caller, key, arguments, callee,
                                 [g \in 1..Len(lens) |-> lens[g].k], r),
              fold_function(callee, [g \in 1..Len(lens) |-> lens[g].k],
                            modules, MaxCalleePasses))

inline_symbol(v, caller, key, arguments, modules, symbol) ==
    IF symbol.sym = "Primitive" THEN Ok(<<MultipleDefinition(v, key, arguments)>>)
    ELSE IF symbol.sym = "Missing" THEN Abort("Panic")
    ELSE Eval(LAMBDA lens : inline_here(v, caller, key, arguments, modules,
                                        symbol.f, lens),
              InferGenerics(symbol.f, arguments))

inline_call(v, caller, key, arguments, modules) ==
    Eval(LAMBDA symbol : inline_symbol(v, caller, key, arguments, modules, symbol),
         Resolve(key, modules))

\* Faulty variant of reduce_statement: the callee's name is passed as the caller.
reduce_statement_callee_as_caller(statement, for_loop_versions, versions, modules) ==
    CASE statement.kind = "MultipleDefinition" ->
           inline_call(statement.vars, statement.key.id, statement.key, statement.args,
                       modules)
      [] statement.kind = "For" -> Abort("Panic")
      [] OTHER -> Ok(<<statement>>)

\* mod.rs 175-189; unimplemented!() panics.
reduce_statement(statement, for_loop_versions, versions, modules) ==
    CASE statement.kind = "MultipleDefinition" ->
           inline_call(statement.vars, "main", statement.key, statement.args, modules)
      [] statement.kind = "For" -> Abort("Panic")
      [] OTHER -> Ok(<<statement>>)

\* Faulty variant of fold_step: an Err after Ok leaves the state Ok.
fold_step_forgets_err(state, e) ==
    CASE state.tag = "Ok" /\ e.tag = "Ok" -> Ok(state.stmts \o e.stmts)
      [] state.tag = "Ok" /\ e.tag = "Err" -> Ok(state.stmts \o e.stmts)
      [] state.tag = "Err" /\ e.tag = "Ok" -> Err(state.stmts \o e.stmts)
      [] state.tag = "Err" /\ e.tag = "Err" -> Err(state.stmts \o e.stmts)

\* Faulty variant of fold_step: only the last statement of each result is kept.
fold_step_pushes_last(state, e) ==
    [tag |-> IF state.tag = "Ok" /\ e.tag = "Ok" THEN "Ok" ELSE "Err",
     stmts |-> state.stmts \o SubSeq(e.stmts, Len(e.stmts), Len(e.stmts))]

\* Faulty variant of fold_step: each result is put in front of the statements so far.
fold_step_prepends(state, e) ==
    [tag |-> IF state.tag = "Ok" /\ e.tag = "Ok" THEN "Ok" ELSE "Err",
     stmts |-> e.stmts \o state.stmts]

\* Faulty variant of fold_step: once the state is Err, the output of a statement
\* that returned Ok is left out.
fold_step_err_drops_ok(state, e) ==
    CASE state.tag = "Ok" /\ e.tag = "Ok" -> Ok(state.stmts \o e.stmts)
      [] state.tag = "Ok" /\ e.tag = "Err" -> Err(state.stmts \o e.stmts)
      [] state.tag = "Err" /\ e.tag = "Ok" -> Err(state.stmts)
      [] state.tag = "Err" /\ e.tag = "Err" -> Err(state.stmts \o e.stmts)

\* Faulty variant of fold_step: a statement that returned Ok after one that
\* returned Err makes the state Ok again.
fold_step_ok_after_err(state, e) ==
    CASE state.tag = "Ok" /\ e.tag = "Ok" -> Ok(state.stmts \o e.stmts)
      [] state.tag = "Ok" /\ e.tag = "Err" -> Err(state.stmts \o e.stmts)
      [] state.tag = "Err" /\ e.tag = "Ok" -> Ok(state.stmts \o e.stmts)
      [] state.tag = "Err" /\ e.tag = "Err" -> Err(state.stmts \o e.stmts)

\* The closure folded over the per-statement results (mod.rs 153-170).
fold_step(state, e) ==
    CASE state.tag = "Ok" /\ e.tag = "Ok" -> Ok(state.stmts \o e.stmts)
      [] state.tag = "Ok" /\ e.tag = "Err" -> Err(state.stmts \o e.stmts)
      [] state.tag = "Err" /\ e.tag = "Ok" -> Err(state.stmts \o e.stmts)
      [] state.tag = "Err" /\ e.tag = "Err" -> Err(state.stmts \o e.stmts)

\* Iterator::fold over the mapped statements, first to last; the map is lazy,
\* so a statement whose reduce_statement does not return ends the pass there.
RECURSIVE fold(_, _)
fold(state, results) ==
    IF results = <<>> THEN state
    ELSE IF Head(results).tag \in Aborts THEN Abort(Head(results).tag)
    ELSE Eval(LAMBDA s : fold(s, Tail(results)), fold_step(state, Head(results)))

\* mod.rs 132-173
\* Faulty variant of pass_result: the Err value carries an empty VersionMap.
pass_result_resets_versions(r, for_loop_versions, versions) ==
    [tag |-> r.tag, statements |-> r.stmts,
     for_loop_versions |-> for_loop_versions, versions |-> EmptyVersions]

\* Result::map_err (mod.rs 172): the Err value carries the two version maps.
pass_result(r, for_loop_versions, versions) ==
    [tag |-> r.tag, statements |-> r.stmts,
     for_loop_versions |-> for_loop_versions, versions |-> versions]

\* mod.rs 132-173
reduce_statements(statements, for_loop_versions, versions, modules) ==
    Eval(LAMBDA mapped :
            Eval(LAMBDA r : pass_result(r, for_loop_versions, versions),
                 fold(Ok(<<>>), mapped)),
         [i \in 1..Len(statements) |->
             reduce_statement(statements[i], for_loop_versions, versions, modules)])

\* mod.rs 191-193
propagate(g) == g

\* One turn of the loop of fold_function (mod.rs 103-124) for a callee, r
\* being what reduce_statements returned: fuel passes without an Ok are
\* reported as Diverge.
loop_turn(g, r, modules, fuel) ==
    CASE r.tag = "Ok" -> [tag |-> "Ok", f |-> [g EXCEPT !.statements = r.statements]]
      [] r.tag \in Aborts -> [tag |-> r.tag, f |-> g]
      [] r.tag = "Err" ->
           IF fuel = 0 THEN [tag |-> "Diverge", f |-> g]
           ELSE fold_loop(propagate([g EXCEPT !.statements = r.statements]),
                          r.for_loop_versions, r.versions, modules, fuel - 1)

fold_loop(g, for_loop_versions, versions, modules, fuel) ==
    Eval(LAMBDA r : loop_turn(g, r, modules, fuel),
         reduce_statements(g.statements, for_loop_versions, versions, modules))

\* ------------------------------------------------------------ input programs

FieldVar(x) == Variable(x, FieldElement)

ReadField(x) == Identifier(x, FieldElement)

CallField(id) ==
    MultipleDefinition(<<FieldVar("a")>>, FunctionKey(id, FieldSig), <<ReadField("a")>>)

ArrayDef(len) == Definition(Variable("b", ArrayOf(len)), ArrayValue(1))

CallGeneric(len) ==
    MultipleDefinition(<<Variable("b", ArrayOf(len))>>, FunctionKey("foo", GenericSig),
                       <<Identifier("b", ArrayOf(len))>>)

Loop(to) == For(Variable("i", U32), Uint(0), to, <<Definition(FieldVar("a"), ReadField("a"))>>)

NDef(c) == Definition(Variable("n", U32), Uint(c))

NCopy == Definition(Variable("n", U32), Identifier("n", U32))

ACopy == Definition(FieldVar("a"), ReadField("a"))

\* The statements a generated main body is made of.
RawStatements ==
    {NDef(42), NDef(2), NCopy, ACopy,
     CallField("foo"), CallField("dup"), CallField("f"), CallField("prim"),
     ArrayDef(Lit(1)), ArrayDef(SubOne("n", 0)),
     CallGeneric(Lit(1)), CallGeneric(SubOne("n", 0)),
     Loop(Uint(0)), Loop(Uint(1)), Loop(Identifier("n", U32))}

ReturnA == Return(<<ReadField("a")>>)

\* The bodies of main in tests::no_generics, with_generics and
\* with_generics_and_propagation.
NoGenericsBody == <<NDef(42), NCopy, ACopy, CallField("foo"), NCopy, ReturnA>>

WithGenericsBody == <<NDef(42), NCopy, ArrayDef(Lit(1)), CallGeneric(Lit(1)), NCopy, ReturnA>>

PropagationBody ==
    <<NDef(2), NCopy, ArrayDef(SubOne("n", 0)), CallGeneric(SubOne("n", 0)), NCopy, ReturnA>>

Bodies ==
    {b \o <<ReturnA>> : b \in UNION {[1..k -> RawStatements] : k \in 0..MaxLen}}
    \cup {NoGenericsBody, WithGenericsBody, PropagationBody}

\* The bodies without a call: those a program whose only function is main can have.
CallFreeBodies ==
    {b \in Bodies : \A i \in 1..Len(b) : b[i].kind # "MultipleDefinition"}

\* main(field a) or main(field a, u32 n)
MainArguments == {<<FieldVar("a")>>, <<FieldVar("a"), Variable("n", U32)>>}

MainFunction(arguments, body) ==
    TypedFunction(<<>>, arguments, body,
                  Signature([i \in 1..Len(arguments) |-> arguments[i].ty], <<FieldElement>>))

Library ==
    (FunctionKey("foo", FieldSig) :> Here(foo)) @@ (FunctionKey("foo", GenericSig) :> Here(fooK))
    @@ (FunctionKey("dup", FieldSig) :> Here(dup)) @@ (FunctionKey("f", FieldSig) :> Here(f_g))
    @@ (FunctionKey("g", FieldSig) :> Here(foo)) @@ (FunctionKey("prim", FieldSig) :> Primitive)

ModuleNames == {"main", "lib"}

\* A TypedProgram: the entry module holds main and the library, and a second
\* module "util" holds one more function; or the entry module is the only
\* module and main its only function.
Programs ==
    {[main |-> m,
      modules |-> (m :> (Library @@ (FunctionKey("main", mf.signature) :> Here(mf))))
                  @@ ("util" :> (FunctionKey("bar", FieldSig) :> Here(foo)))] :
        m \in ModuleNames,
        mf \in {MainFunction(args, b) : args \in MainArguments, b \in Bodies}}
    \cup
    {[main |-> m, modules |-> (m :> (FunctionKey("main", mf.signature) :> Here(mf)))] :
        m \in ModuleNames,
        mf \in {MainFunction(args, b) : args \in MainArguments, b \in CallFreeBodies}}

\* -------------------------------------------------------------------- state

VARIABLES
    p,                  \* the TypedProgram given to reduce_program
    f,                  \* fold_function: the function being reduced
    for_loop_versions,  \* fold_function: the loop snapshots of the next pass
    versions,           \* fold_function: the version map of the next pass
    pending,            \* the Err value of the last pass, until it is propagated
    error,              \* Reducer.error
    phase,              \* where reduce_program is
    out,                \* the program returned in Ok
    rewrote,            \* whether the last pass changed the statements
    again               \* the result of reduce_program on the program returned

vars == <<p, f, for_loop_versions, versions, pending, error, phase, out, rewrote, again>>

NotAgain == [tag |-> "None", program |-> [main |-> "", modules |-> <<>>]]

NoProgram == [main |-> "", modules |-> <<>>]

NoPending == [statements |-> <<>>, for_loop_versions |-> <<>>, versions |-> EmptyVersions]

\* reduce_program 51-58: the entry module and its function with id "main".
main_key(prog) == CHOOSE k \in DOMAIN prog.modules[prog.main] : k.id = "main"

main_function(prog) == prog.modules[prog.main][main_key(prog)].f

\* Faulty variant of reduced_program: main replaces the entry module's functions, the
\* other modules stay.
reduced_program_keeps_modules(prog, g) ==
    [main |-> prog.main,
     modules |-> [prog.modules EXCEPT ![prog.main] = (main_key(prog) :> Here(g))]]

\* reduce_program 77-89: the program returned in Ok.
reduced_program(prog, g) ==
    [main |-> prog.main,
     modules |-> (prog.main :> (main_key(prog) :> Here(g)))]

Init ==
    /\ p \in Programs
    /\ f = main_function(p)
    /\ for_loop_versions = <<>>
    /\ versions = EmptyVersions
    /\ pending = NoPending
    /\ error = "None"
    /\ phase = "start"
    /\ out = NoProgram
    /\ rewrote = "none"
    /\ again = NotAgain

\* fold_function 95-101: what the driver holds after the shallow SSA of main.
transformed(t, old_for_loop_versions, old_versions) ==
    IF t.complete
    THEN [f |-> t.f, phase |-> "folded",
          for_loop_versions |-> old_for_loop_versions, versions |-> old_versions]
    ELSE [f |-> t.f, phase |-> "incomplete",
          for_loop_versions |-> t.for_loop_versions, versions |-> t.versions]

\* fold_function 95: ShallowTransformer::transform(f, self.generics), the
\* generics of the Reducer built by reduce_program being empty.
Transform ==
    /\ phase = "start"
    /\ \E t \in {ShallowTransform(f, <<>>)} :
       \E n \in {transformed(t, for_loop_versions, versions)} :
          /\ f' = n.f
          /\ phase' = n.phase
          /\ for_loop_versions' = n.for_loop_versions
          /\ versions' = n.versions
    /\ UNCHANGED <<p, pending, error, out, rewrote, again>>

\* Faulty variant of pass_returned: the function is rebuilt from its statements and
\* signature, without its arguments.
pass_returned_drops_arguments(g, r, old_pending, old_rewrote) ==
    CASE r.tag = "Ok" ->
           [f |-> TypedFunction(g.generics, <<>>, r.statements, g.signature),
            phase |-> "folded", pending |-> old_pending,
            rewrote |-> IF r.statements = g.statements THEN "no" ELSE "yes"]
      [] r.tag = "Err" ->
           [f |-> g, phase |-> "propagate",
            pending |-> [statements |-> r.statements,
                         for_loop_versions |-> r.for_loop_versions,
                         versions |-> r.versions],
            rewrote |-> IF r.statements = g.statements THEN "no" ELSE "yes"]
      [] OTHER ->
           [f |-> g, phase |-> "panic", pending |-> old_pending, rewrote |-> old_rewrote]

\* fold_function 110-118 and 126: what the loop does with the result r of a
\* pass over the body of g: Ok breaks the loop with the statements, Err keeps
\* the new statements and version maps for line 119-121.
pass_returned(g, r, old_pending, old_rewrote) ==
    CASE r.tag = "Ok" ->
           [f |-> [g EXCEPT !.statements = r.statements], phase |-> "folded",
            pending |-> old_pending,
            rewrote |-> IF r.statements = g.statements THEN "no" ELSE "yes"]
      [] r.tag = "Err" ->
           [f |-> g, phase |-> "propagate",
            pending |-> [statements |-> r.statements,
                         for_loop_versions |-> r.for_loop_versions,
                         versions |-> r.versions],
            rewrote |-> IF r.statements = g.statements THEN "no" ELSE "yes"]
      [] r.tag = "Panic" ->
           [f |-> g, phase |-> "panic", pending |-> old_pending, rewrote |-> old_rewrote]
      [] r.tag = "Diverge" ->
           [f |-> g, phase |-> "hang", pending |-> old_pending, rewrote |-> old_rewrote]

\* fold_function 104-109: one pass of reduce_statements over the body.
ReducePass ==
    /\ phase = "incomplete"
    /\ \E r \in {reduce_statements(f.statements, for_loop_versions, versions,
                                   p.modules)} :
       \E n \in {pass_returned(f, r, pending, rewrote)} :
          /\ f' = n.f
          /\ phase' = n.phase
          /\ pending' = n.pending
          /\ rewrote' = n.rewrote
    /\ UNCHANGED <<p, for_loop_versions, versions, error, out, again>>

\* fold_function 119-121: propagate the new body and take the new version maps.
Propagate ==
    /\ phase = "propagate"
    /\ f' = propagate([f EXCEPT !.statements = pending.statements])
    /\ versions' = pending.versions
    /\ for_loop_versions' = pending.for_loop_versions
    /\ pending' = NoPending
    /\ phase' = "incomplete"
    /\ UNCHANGED <<p, error, out, rewrote, again>>

\* reduce_program 75-90: Err(e) when the reducer recorded an error, else Ok.
Finish ==
    /\ phase = "folded"
    /\ IF error # "None"
       THEN phase' = "err" /\ out' = NoProgram
       ELSE phase' = "ok" /\ out' = reduced_program(p, f)
    /\ UNCHANGED <<p, f, for_loop_versions, versions, pending, error, rewrote, again>>

\* reduce_program (mod.rs 50-91) as a function of the program: the main of the
\* entry module folded by a Reducer without generics, alone in the output.
reduce_program(prog) ==
    Eval(LAMBDA r : IF r.tag = "Ok"
                    THEN [tag |-> "Ok", program |-> reduced_program(prog, r.f)]
                    ELSE [tag |-> r.tag, program |-> NoProgram],
         fold_function(main_function(prog), <<>>, prog.modules, MaxCalleePasses))

\* The caller hands the program it got in Ok to reduce_program once more.
ReduceAgain ==
    /\ phase = "ok"
    /\ \E r \in {reduce_program(out)} : again' = r
    /\ phase' = "again"
    /\ UNCHANGED <<p, f, for_loop_versions, versions, pending, error, out, rewrote>>

Next == Transform \/ ReducePass \/ Propagate \/ Finish \/ ReduceAgain

Spec == Init /\ [][Next]_vars

\* reduce_program runs on one thread from its call to its return: a step that
\* can be taken is taken.
FairSpec == Spec /\ WF_vars(Next)

\* ------------------------------------------------------------------ claims

\* The function stored in the returned program, and its body.
OutMain == out.modules[out.main][CHOOSE k \in DOMAIN out.modules[out.main] : TRUE].f

OutBody == OutMain.statements

InputMain == main_function(p)

Kinds(stmts) == {stmts[i].kind : i \in 1..Len(stmts)}

\* C1: every run of reduce_program ends: the loop of fold_function makes
\* finitely many passes, also when a pass returns the statements and version
\* maps it was given.
C1_Terminates == <>(phase \in {"ok", "err", "panic", "again"})

\* C2: a pass that returned an incomplete body without rewriting any statement
\* is the last one: the driver stops and reduce_program returns Err, with no
\* output program.
C2_NonProgressIsAnError ==
    (rewrote = "no" /\ phase \notin {"folded", "ok", "again"}) => (phase = "err" /\ out = NoProgram)

IsResidualCall(s) ==
    s.kind = "MultipleDefinition" /\ Resolve(s.key, p.modules).sym # "Primitive"

\* C3: when reduce_program returns Ok, the body of the output main holds no
\* For loop and no call of a symbol that is not Primitive.
C3_OutputIsReduced ==
    phase = "ok" =>
        \A i \in 1..Len(OutBody) : OutBody[i].kind # "For" /\ ~IsResidualCall(OutBody[i])

\* C3 witness: Ok after a pass that inlined a call and kept a Primitive call.
C3_Witness ==
    /\ phase = "ok"
    /\ rewrote = "yes"
    /\ {"PushCallLog", "MultipleDefinition"} \subseteq Kinds(OutBody)

\* C4: the program returned in Ok has the entry module name of the input and
\* exactly one module, which holds exactly one function: a Here function under
\* the key of the input main.
C4_SingleMain ==
    phase = "ok" =>
        /\ out.main = p.main
        /\ DOMAIN out.modules = {p.main}
        /\ DOMAIN out.modules[p.main] = {FunctionKey("main", InputMain.signature)}
        /\ out.modules[p.main][FunctionKey("main", InputMain.signature)].sym = "Here"

\* C4 witness: Ok for an input with a second module and other functions,
\* whose entry module is not named main.
C4_Witness ==
    /\ phase = "ok"
    /\ p.main = "lib"
    /\ Cardinality(DOMAIN p.modules) = 2
    /\ Cardinality(DOMAIN p.modules[p.main]) > 1

\* C5: reduction changes only the statements of main: at every point of the
\* driver and in the output, the arguments, the empty generic parameter list
\* and the signature are those of the input main.
C5_OnlyStatementsChange ==
    /\ f.arguments = InputMain.arguments
    /\ f.generics = <<>>
    /\ f.signature = InputMain.signature
    /\ phase = "ok" =>
          /\ OutMain.arguments = InputMain.arguments
          /\ OutMain.generics = <<>>
          /\ OutMain.signature = InputMain.signature

\* C5 witness: Ok after a pass that rewrote the body of a main of two arguments.
C5_Witness ==
    /\ phase = "ok"
    /\ rewrote = "yes"
    /\ Len(OutMain.arguments) = 2
    /\ OutBody # InputMain.statements

\* The call-log depth after stmts, from depth d; -1 once a Pop has no Push.
RECURSIVE Nesting(_, _)
Nesting(stmts, d) ==
    IF d < 0 THEN 0 - 1
    ELSE IF stmts = <<>> THEN d
    ELSE Nesting(Tail(stmts),
                 CASE Head(stmts).kind = "PushCallLog" -> d + 1
                   [] Head(stmts).kind = "PopCallLog" -> d - 1
                   [] OTHER -> d)

Balanced(stmts) == Nesting(stmts, 0) = 0

\* C6: in the body handed from one pass to the next and in the output body,
\* the PushCallLog and PopCallLog markers are balanced and properly nested.
C6_CallLogsBalanced ==
    /\ Balanced(f.statements)
    /\ Balanced(pending.statements)
    /\ phase = "ok" => Balanced(OutBody)

\* C6 witness: a body with a call-log frame is handed to a second pass.
C6_Witness ==
    /\ phase = "incomplete"
    /\ rewrote = "yes"
    /\ "PushCallLog" \in Kinds(f.statements)

Write(v) == [id |-> v.id, ver |-> v.ver]

ArgumentWrites == [i \in 1..Len(InputMain.arguments) |-> Write(InputMain.arguments[i])]

Targets(bindings) == [i \in 1..Len(bindings) |-> Write(bindings[i][1])]

\* Every Definition left-hand side, PushCallLog binding target and PopCallLog
\* destination of stmts, in statement order.
RECURSIVE AllWrites(_)
AllWrites(stmts) ==
    IF stmts = <<>> THEN <<>>
    ELSE (CASE Head(stmts).kind = "Definition" -> <<Write(Head(stmts).var)>>
            [] Head(stmts).kind \in {"PushCallLog", "PopCallLog"} ->
                 Targets(Head(stmts).bindings)
            [] OTHER -> <<>>)
         \o AllWrites(Tail(stmts))

\* The writes of main itself: the left-hand sides outside every call-log frame
\* and the PopCallLog destinations that close an outermost frame.
RECURSIVE MainWrites(_, _)
MainWrites(stmts, d) ==
    IF stmts = <<>> THEN <<>>
    ELSE CASE Head(stmts).kind = "PushCallLog" -> MainWrites(Tail(stmts), d + 1)
           [] Head(stmts).kind = "PopCallLog" ->
                (IF d = 1 THEN Targets(Head(stmts).bindings) ELSE <<>>)
                \o MainWrites(Tail(stmts), d - 1)
           [] Head(stmts).kind = "Definition" ->
                (IF d = 0 THEN <<Write(Head(stmts).var)>> ELSE <<>>)
                \o MainWrites(Tail(stmts), d)
           [] Head(stmts).kind = "MultipleDefinition" ->
                (IF d = 0 THEN [i \in 1..Len(Head(stmts).vars) |->
                                   Write(Head(stmts).vars[i])]
                 ELSE <<>>)
                \o MainWrites(Tail(stmts), d)
           [] OTHER -> MainWrites(Tail(stmts), d)

Increasing(ws) ==
    \A i, j \in 1..Len(ws) : (i < j /\ ws[i].id = ws[j].id) => ws[i].ver < ws[j].ver

\* C7 as stated: in the output body every write to a name (Definition
\* left-hand side, PushCallLog binding target, PopCallLog destination) has a
\* version greater than every earlier write to that name, an argument being a
\* write of version 0.
C7_AllWritesIncrease ==
    phase = "ok" => Increasing(ArgumentWrites \o AllWrites(OutBody))

\* C7 amended: in the output body the writes of main itself (left-hand sides
\* outside every call-log frame, PopCallLog destinations closing an outermost
\* frame) have versions that increase per name, an argument being a write of
\* version 0.
C7_MainWritesIncrease ==
    phase = "ok" => Increasing(ArgumentWrites \o MainWrites(OutBody, 0))

\* C7 witness: Ok with a PopCallLog destination written again by a later
\* Definition of main.
C7_Witness ==
    /\ phase = "ok"
    /\ \E i, j \in 1..Len(OutBody) :
          /\ i < j
          /\ OutBody[i].kind = "PopCallLog"
          /\ OutBody[j].kind = "Definition"
          /\ OutBody[j].var.id = OutBody[i].bindings[1][1].id
          /\ Nesting(SubSeq(OutBody, 1, j), 0) = 0

Raw == InputMain.statements

IsArgument(x) == \E i \in 1..Len(InputMain.arguments) : InputMain.arguments[i].id = x

WritesTo(s, x) ==
    \/ s.kind = "Definition" /\ s.var.id = x
    \/ s.kind = "MultipleDefinition" /\ \E i \in 1..Len(s.vars) : s.vars[i].id = x

\* The version the write of x by statement i of the input gets, and the
\* version a read of x by statement i refers to.
FreshVersion(x, i) ==
    Cardinality({j \in 1..(i - 1) : WritesTo(Raw[j], x)}) + (IF IsArgument(x) THEN 1 ELSE 0)

ReadVersion(x, i) == IF FreshVersion(x, i) = 0 THEN 0 ELSE FreshVersion(x, i) - 1

\* A call of a Here function that is a single return, its generic argument
\* (if any) being a literal array length.
IsSingleReturnCall(s) ==
    /\ s.kind = "MultipleDefinition"
    /\ Resolve(s.key, p.modules).sym = "Here"
    /\ Kinds(Resolve(s.key, p.modules).f.statements) = {"Return"}
    /\ s.args[1].ty.len.l = "lit"

ConcreteType(s) ==
    IF s.key.signature = GenericSig THEN ArrayOf(Lit(s.args[1].ty.len.k)) ELSE FieldElement

ExpectedPush(s, i) ==
    PushCallLog("main", s.key,
                IF s.key.signature = GenericSig THEN <<s.args[1].ty.len.k>> ELSE <<>>,
                <<<<Variable("a", ConcreteType(s)),
                    [s.args[1] EXCEPT !.ver = ReadVersion(s.args[1].id, i)]>>>>)

ExpectedPop(s, i) ==
    PopCallLog(<<<<[id |-> s.vars[1].id, ver |-> FreshVersion(s.vars[1].id, i),
                    ty |-> ConcreteType(s)],
                   Identifier("a", ConcreteType(s))>>>>)

Reads(s, x) ==
    \/ s.kind = "Definition" /\ s.rhs.e = "id" /\ s.rhs.id = x
    \/ s.kind = "Return" /\ s.exprs[1].id = x

ReadOf(s) == IF s.kind = "Definition" THEN s.rhs ELSE s.exprs[1]

\* C8: a call site of a single-return Here function, after Definitions only, is
\* replaced in place by PushCallLog(main, key, generic arguments, parameter :=
\* versioned argument) and PopCallLog(destination with its fresh version :=
\* return expression); the Definitions before it keep their place with their
\* SSA versions, and a Definition or Return right after it follows the
\* PopCallLog and reads the destination's fresh version.
C8_CallSiteReplaced ==
    phase = "ok" =>
        \A i \in 1..Len(Raw) :
            (IsSingleReturnCall(Raw[i]) /\ \A j \in 1..(i - 1) : Raw[j].kind = "Definition")
            => /\ OutBody[i] = ExpectedPush(Raw[i], i)
               /\ OutBody[i + 1] = ExpectedPop(Raw[i], i)
               /\ \A j \in 1..(i - 1) :
                     /\ OutBody[j].kind = "Definition"
                     /\ Write(OutBody[j].var) =
                            [id |-> Raw[j].var.id, ver |-> FreshVersion(Raw[j].var.id, j)]
               /\ (i < Len(Raw) /\ Raw[i + 1].kind \in {"Definition", "Return"})
                     => /\ OutBody[i + 2].kind = Raw[i + 1].kind
                        /\ Reads(Raw[i + 1], Raw[i].vars[1].id)
                              => ReadOf(OutBody[i + 2]).ver =
                                     FreshVersion(Raw[i].vars[1].id, i)

\* C8 witness: Ok for a main with a Definition, then a call of foo<K> with the
\* array length 1, then the return.
C8_Witness ==
    /\ phase = "ok"
    /\ Len(Raw) >= 3
    /\ Raw[1].kind = "Definition"
    /\ IsSingleReturnCall(Raw[2])
    /\ Raw[2].key.signature = GenericSig
    /\ OutBody[2].kind = "PushCallLog"
    /\ OutBody[2].generics = <<1>>

AllLengths(stmts) ==
    UNION {CASE stmts[i].kind = "Definition" -> {stmts[i].var.ty.len, stmts[i].rhs.ty.len}
             [] stmts[i].kind = "MultipleDefinition" ->
                  {stmts[i].vars[1].ty.len, stmts[i].args[1].ty.len}
             [] stmts[i].kind \in {"PushCallLog", "PopCallLog"} ->
                  {stmts[i].bindings[1][1].ty.len, stmts[i].bindings[1][2].ty.len}
             [] OTHER -> {} : i \in 1..Len(stmts)}

\* main defines n as the constant 2, only copies it afterwards, and has an
\* array of length n - 1.
LengthIsTwoMinusOne ==
    /\ ~IsArgument("n")
    /\ \E i \in 1..Len(Raw) : Raw[i] = NDef(2)
    /\ \A i \in 1..Len(Raw) : WritesTo(Raw[i], "n") => Raw[i] \in {NDef(2), NCopy}
    /\ \E i \in 1..Len(Raw) : Raw[i] = CallGeneric(SubOne("n", 0))

\* C9: with the array length n - 1 and n the constant 2, the propagation after
\* the first pass folds the length to the literal 1 wherever it occurs.
C9_LengthFolded ==
    [][(phase = "propagate" /\ LengthIsTwoMinusOne)
          => \A len \in AllLengths(f'.statements) : len.l = "lit"]_vars

IsConstantLoop(s) == s.kind = "For" /\ s.from.e = "uint" /\ s.to.e = "uint"

\* C10: a pass over a body whose only call or loop is a For with constant
\* bounds puts to - from copies of the loop body in its place (none, and the
\* same VersionMap, when from = to).
C10_ConstantLoopUnrolled ==
    [][\A i \in 1..Len(f.statements) :
          (/\ phase = "incomplete"
           /\ IsConstantLoop(f.statements[i])
           /\ \A j \in 1..Len(f.statements) : j # i => ~IsCallOrLoop(f.statements[j]))
          => /\ phase' = "folded"
             /\ "For" \notin Kinds(f'.statements)
             /\ Len(f'.statements) =
                   Len(f.statements) - 1 + (f.statements[i].to.val - f.statements[i].from.val)
             /\ f.statements[i].to.val = f.statements[i].from.val => versions' = versions]_vars

\* main holds a loop whose upper bound is a read of a function argument.
HasArgumentBoundLoop ==
    \E i \in 1..Len(Raw) :
        /\ Raw[i].kind = "For"
        /\ Raw[i].to.e = "id"
        /\ IsArgument(Raw[i].to.id)

\* C11: for a main with a loop for i in 0..n, n a function argument,
\* reduce_program returns: it does not panic or hang, it gives no Ok, and when
\* it has returned the result is Err(Generic) without an output program.
C11_UnboundedLoopIsAnError ==
    HasArgumentBoundLoop =>
        /\ phase \notin {"panic", "hang", "ok", "again"}
        /\ phase = "err" => (error = "Generic" /\ out = NoProgram)

IsComplete(g) == \A i \in 1..Len(g.statements) : ~IsCallOrLoop(g.statements[i])

OnlyMain(prog) ==
    /\ DOMAIN prog.modules = {prog.main}
    /\ Cardinality(DOMAIN prog.modules[prog.main]) = 1

\* The program with its main in shallow SSA form.
InSsaForm(prog) ==
    [prog EXCEPT !.modules[prog.main][main_key(prog)].f =
                     ShallowTransform(main_function(prog), <<>>).f]

\* C12 as stated: reduce_program applied to the program it returned gives
\* that program again, and a program whose main is Complete and alone in its
\* entry module is returned as it was given.
C12_Idempotent ==
    phase = "again" =>
        /\ again = [tag |-> "Ok", program |-> out]
        /\ (IsComplete(InputMain) /\ OnlyMain(p)) => out = p

\* C12 amended: for a program whose main is Complete, reduce_program returns
\* main in shallow SSA form, and reduce_program applied to that program gives
\* it again; when main is alone in the program, the program returned is the
\* input with main in shallow SSA form, the input itself when main has that
\* form already.
C12_IdempotentModuloSsa ==
    (phase = "again" /\ IsComplete(InputMain)) =>
        /\ OutMain = ShallowTransform(InputMain, <<>>).f
        /\ again = [tag |-> "Ok", program |-> out]
        /\ OnlyMain(p) => out = InSsaForm(p)
        /\ (OnlyMain(p) /\ InSsaForm(p) = p) => out = p

\* C12 witness: a Complete main, alone in its program, came back with new
\* versions, and the second reduction returned the same program.
C12_Witness ==
    /\ phase = "again"
    /\ IsComplete(InputMain)
    /\ OnlyMain(p)
    /\ out # p
    /\ again = [tag |-> "Ok", program |-> out]

\* main calls f, which calls g, and has no other call or loop.
CallsFOnly ==
    /\ \E i \in 1..Len(Raw) : Raw[i] = CallField("f")
    /\ \A i, j \in 1..Len(Raw) : (IsCallOrLoop(Raw[i]) /\ IsCallOrLoop(Raw[j])) => i = j

\* The call-log markers of stmts, in order.
IsMarker(s) == s.kind \in {"PushCallLog", "PopCallLog"}

Markers(stmts) == SelectSeq(stmts, IsMarker)

\* C13: for a main that calls f, f calling g, the output body has no call
\* statement left and exactly two call-log frames, the one of g inside the
\* one of f; the PushCallLog of f names main as the caller and the
\* PushCallLog of g names f.
C13_NestedFramesNameTheirCaller ==
    (phase = "ok" /\ CallsFOnly) =>
        /\ "MultipleDefinition" \notin Kinds(OutBody)
        /\ [i \in 1..Len(Markers(OutBody)) |-> Markers(OutBody)[i].kind]
              = <<"PushCallLog", "PushCallLog", "PopCallLog", "PopCallLog">>
        /\ Markers(OutBody)[1].key.id = "f"
        /\ Markers(OutBody)[2].key.id = "g"
        /\ Markers(OutBody)[1].caller = "main"
        /\ Markers(OutBody)[2].caller = "f"

\* What reduce_statement returns for each statement the pass is given.
Replacements ==
    [i \in 1..Len(f.statements) |->
        reduce_statement(f.statements[i], for_loop_versions, versions, p.modules)]

RECURSIVE Concat(_)
Concat(results) ==
    IF results = <<>> THEN <<>> ELSE Head(results).stmts \o Concat(Tail(results))

\* The body a pass has returned, in Ok or in Err.
PassBody == IF phase = "folded" THEN f.statements ELSE pending.statements

\* C14: the body a pass returns, in Ok and in Err alike, is the replacements
\* of the statements it was given, joined in the order of those statements; a
\* statement that is no call and no loop is there once, unchanged, after the
\* replacements of the statements before it.
C14_OrderPreserved ==
    [][(phase = "incomplete" /\ phase' \in {"folded", "propagate"}) =>
          /\ PassBody' = Concat(Replacements)
          /\ \A i \in 1..Len(f.statements) :
                ~IsCallOrLoop(f.statements[i]) =>
                    /\ Replacements[i].stmts = <<f.statements[i]>>
                    /\ PassBody'[Len(Concat(SubSeq(Replacements, 1, i - 1))) + 1]
                          = f.statements[i]]_vars

\* C14 witness: a pass returned Err after it replaced a call by its frame; the
\* return of main is still the last statement.
C14_Witness ==
    /\ phase = "propagate"
    /\ rewrote = "yes"
    /\ "PushCallLog" \in Kinds(pending.statements)
    /\ pending.statements[Len(pending.statements)] = f.statements[Len(f.statements)]
    /\ Len(pending.statements) = Len(f.statements) + 1

\* C15: a pass that rewrote a statement hands its body to propagate before
\* the body is returned: the loop is not left with the body of such a pass.
C15_RewrittenBodyIsPropagated ==
    [][(phase = "incomplete" /\ phase' \in {"folded", "propagate"} /\ rewrote' = "yes")
          => phase' = "propagate"]_vars

\* The PopCallLog destinations of stmts that close an outermost frame.
RECURSIVE Destinations(_, _)
Destinations(stmts, d) ==
    IF stmts = <<>> THEN {}
    ELSE CASE Head(stmts).kind = "PushCallLog" -> Destinations(Tail(stmts), d + 1)
           [] Head(stmts).kind = "PopCallLog" ->
                (IF d = 1 THEN {Write(Head(stmts).bindings[i][1]) :
                                   i \in 1..Len(Head(stmts).bindings)}
                 ELSE {})
                \cup Destinations(Tail(stmts), d - 1)
           [] OTHER -> Destinations(Tail(stmts), d)

\* The greatest version main writes for x in stmts, an argument being a write
\* of version 0; Absent when main does not write x.
Greatest(stmts, x) ==
    LET ws == ArgumentWrites \o MainWrites(stmts, 0)
        vs == {ws[i].ver : i \in {j \in 1..Len(ws) : ws[j].id = x}}
    IN IF vs = {} THEN Absent ELSE CHOOSE v \in vs : \A w \in vs : w <= v

Tags(results) == {results[i].tag : i \in 1..Len(results)}

\* C17: a pass in which reduce_statement returned for every statement is Ok
\* exactly when every statement returned Ok; with an Err at any position it is
\* Err and its value holds the outputs of all statements, those after the Err
\* too (a later loop still makes the pass panic); a pass over no statement is
\* Ok of no statement; the pass after an Err is given the whole body.
C17_OkIffAllOk ==
    [][/\ (phase = "incomplete" /\ Tags(Replacements) \subseteq {"Ok", "Err"}) =>
             /\ phase' = "folded" <=> Tags(Replacements) \subseteq {"Ok"}
             /\ "Err" \in Tags(Replacements) =>
                   /\ phase' = "propagate"
                   /\ pending'.statements = Concat(Replacements)
                   /\ Len(pending'.statements) >= Len(f.statements)
       /\ (phase = "incomplete" /\ "Panic" \in Tags(Replacements)) => phase' = "panic"
       /\ phase = "incomplete" =>
             reduce_statements(<<>>, for_loop_versions, versions, p.modules).tag = "Ok"
             /\ reduce_statements(<<>>, for_loop_versions, versions, p.modules).statements = <<>>
       /\ phase = "propagate" =>
             (phase' = "incomplete" /\ f'.statements = pending.statements)]_vars

\* C17 witness: the first statement returned Err and a call after it was
\* replaced by its frame, which the Err value holds.
C17_Witness ==
    /\ phase = "propagate"
    /\ pending.statements[1].kind = "MultipleDefinition"
    /\ pending.statements[1] = f.statements[1]
    /\ "PushCallLog" \in Kinds(pending.statements)

====
